---- MODULE Spec2Model ----
(***************************************************************************)
(* Model of game_agent.py: the time-bounded adversarial search of the      *)
(* Isolation agents (MinimaxPlayer, AlphaBetaPlayer).                       *)
(*                                                                         *)
(* The board (isolation.Board) is an external collaborator that the agents *)
(* use only through get_legal_moves() and forecast_move().  It is modelled *)
(* as an arbitrary finite ordered game tree: a game state is a node, the   *)
(* legal moves of a state are its children in enumeration order, and       *)
(* forecast_move leads to the child.  The score policy (self.score) is an   *)
(* arbitrary finite-valued function of the state.  The time oracle         *)
(* (self.time_left) is a function of the number of polls made so far.      *)
(***************************************************************************)
EXTENDS Integers, Sequences, FiniteSets, TLC

\* ------------------------------------------------------------------ bounds
MaxNodes == 6      \* game trees have 1..MaxNodes states
MaxScore == 1      \* the score policy returns values in 0..MaxScore
MaxPly   == 3      \* depths of the fixed-depth calls: 1..MaxPly
MaxTime  == 10     \* an oracle starts at most MaxTime above the threshold

\* The iterative-deepening loop has no cap in the code.  Under an oracle that
\* strictly decreases the loop is bounded by the oracle (every round polls at
\* least once); under an oracle that never changes the model stops the loop
\* after MaxRounds rounds.
MaxRounds == MaxPly + 1

\* ------------------------------------------------------- program constants
TIMER_THRESHOLD == 10                     \* timeout=10.
Sentinel_zero == <<0, 0>>                 \* faulty variant: best_move = (0, 0)
Sentinel == <<-1, -1>>                    \* (-1, -1)
NoValue == <<>>                           \* nothing was returned
DefaultSearchDepth == 3                   \* search_depth=3
PosInf == MaxScore + 1                    \* float("inf"): above every score
NegInf_lowest == MaxScore - MaxScore      \* faulty variant: the lowest score, not below it
NegInf == -1 - MaxScore                   \* float("-inf"): below every score
Scores == 0..MaxScore

\* Faulty variant of min: v = max_value(...) instead of v = min(v, max_value(...)).
Min_latest(a, b) == b

Min(a, b) == IF a <= b THEN a ELSE b
Max(a, b) == IF a >= b THEN a ELSE b

VARIABLES
    parent,       \* the board: parent[g] is the state g was forecast from (0: root)
    score,        \* the score policy: score[g] = self.score(g, self)
    player,       \* the class of the agent under test
    search_depth, \* self.search_depth
    time_left,    \* self.time_left: None, or the oracle installed by the last call
    call,         \* the method last called on the agent
    pc,           \* "idle" | "running" | "returned" | "raised"
    depth,        \* the depth argument (fixed-depth calls) or the local depth (get_move)
    best_move,    \* the local best_move of get_move
    ret,          \* the value the call returned
    polls,        \* number of polls of the oracle made by the call
    timed_out,    \* SearchTimeout was raised inside the call
    rounds,       \* results of the completed alphabeta rounds of the call, in order
    partial,      \* best_move local of the search frame that was unwound by the abort
    log,          \* the collaborator and helper calls made by the call, in order
    frame         \* a min_value/max_value frame entered on its own: node, window, value

vars == <<parent, score, player, search_depth, time_left, call, pc, depth,
          best_move, ret, polls, timed_out, rounds, partial, log, frame>>

\* ---------------------------------------------------------------- the board
Root == 1
NNodes == Len(parent)

\* Ordered trees in breadth-first numbering: node i > 1 hangs under an earlier
\* node, and siblings and cousins are numbered in enumeration order.
Trees(n) ==
    {p \in [1..n -> 0..(n - 1)] :
        /\ p[1] = 0
        /\ \A i \in 2..n : p[i] >= 1 /\ p[i] < i
        /\ \A i \in 3..n : p[i - 1] <= p[i]}

\* A move is a pair of board coordinates; the move leading to state c.
MoveTo(c) == <<parent[c], c>>

\* game.get_legal_moves(): the moves of the player to act, in enumeration order.
get_legal_moves(g) ==
    LET kids == SelectSeq([i \in 1..NNodes |-> i], LAMBDA c : parent[c] = g)
    IN  [k \in 1..Len(kids) |-> MoveTo(kids[k])]

\* game.forecast_move(move): the successor state.
forecast_move(g, move) == move[2]

\* ------------------------------------------------------------- the oracle
\* An oracle reports start - step * k at its k-th poll (k = 0, 1, ...):
\* step = 0 is an oracle that never changes, step >= 1 one that strictly
\* decreases with each poll.  A call ends at the first poll below the
\* threshold, so the index of that poll is all of an oracle a call can
\* observe: the oracles below produce every such index up to MaxTime + 1, and
\* the oracle that stays at the threshold never aborts (the test is <).
Oracles ==
    {o \in [start : (TIMER_THRESHOLD - 1)..(TIMER_THRESHOLD + MaxTime), step : 0..1] :
        o.step = 0 => o.start = TIMER_THRESHOLD}

oracle_value(o, k) == o.start - o.step * k

\* self.time_left = None: no oracle is installed yet.
None == [start |-> 0, step |-> 0]

\* -------------------------------------------------------- search context
\* The effects of a search are threaded through its frames as a context:
\* the polls made, the calls logged, and whether SearchTimeout is unwinding.
Ctx0 == [polls |-> 0, log |-> <<>>, raised |-> FALSE]

Ev(c, name, g, d) == [c EXCEPT !.log = Append(@, <<name, g, d>>)]

\* if self.time_left() < self.TIMER_THRESHOLD: raise SearchTimeout()
check_timer(o, c, g, d) ==
    [polls  |-> c.polls + 1,
     log    |-> Append(c.log, <<"time_left", g, d>>),
     raised |-> oracle_value(o, c.polls) < TIMER_THRESHOLD]

\* Faulty variant of terminal_test: the depth test is off by one (depth < 0).
terminal_test_deeper(o, g, d, c) ==
    LET c1 == check_timer(o, c, g, d)
    IN  IF c1.raised THEN [c |-> c1, v |-> FALSE]
        ELSE IF d < 0 THEN [c |-> c1, v |-> TRUE]
        ELSE [c |-> Ev(c1, "get_legal_moves", g, d), v |-> get_legal_moves(g) = <<>>]

\* Faulty variant of terminal_test: the depth is tested before the oracle is
\* polled, so a leaf at the depth limit is scored without a poll.
terminal_test_depth_first(o, g, d, c) ==
    IF d <= 0 THEN [c |-> c, v |-> TRUE]
    ELSE LET c1 == check_timer(o, c, g, d)
         IN  IF c1.raised THEN [c |-> c1, v |-> FALSE]
             ELSE [c |-> Ev(c1, "get_legal_moves", g, d), v |-> get_legal_moves(g) = <<>>]

\* terminal_test(game, depth) of both players.
terminal_test(o, g, d, c) ==
    LET c1 == check_timer(o, c, g, d)
    IN  IF c1.raised THEN [c |-> c1, v |-> FALSE]
        ELSE IF d <= 0 THEN [c |-> c1, v |-> TRUE]
        ELSE [c |-> Ev(c1, "get_legal_moves", g, d), v |-> get_legal_moves(g) = <<>>]

\* Faulty variant of the root comparison: a later move of equal value wins.
better_or_equal(v, best_score) == v >= best_score

\* if v > best_score: the root keeps a move only if it is strictly better.
better(v, best_score) == v > best_score

\* ------------------------------------------------------ MinimaxPlayer.minimax
RECURSIVE mm_min_value(_, _, _, _), mm_min_loop(_, _, _, _, _, _, _)
RECURSIVE mm_max_value(_, _, _, _), mm_max_loop(_, _, _, _, _, _, _)

\* for move in legal_moves: v = min(v, max_value(game.forecast_move(move), depth - 1))
mm_min_loop(o, g, d, moves, i, v, c) ==
    IF i > Len(moves) THEN [c |-> c, v |-> v]
    ELSE LET r == mm_max_value(o, forecast_move(g, moves[i]), d - 1,
                               Ev(c, "forecast_move", forecast_move(g, moves[i]), d))
         IN  IF r.c.raised THEN r
             ELSE mm_min_loop(o, g, d, moves, i + 1, Min(v, r.v), r.c)

mm_min_value(o, g, d, c) ==
    LET t == terminal_test(o, g, d, Ev(c, "min_value", g, d))
    IN  IF t.c.raised THEN [c |-> t.c, v |-> 0]
        ELSE IF t.v THEN [c |-> Ev(t.c, "score", g, d), v |-> score[g]]
        ELSE mm_min_loop(o, g, d, get_legal_moves(g), 1, PosInf,
                         Ev(t.c, "get_legal_moves", g, d))

\* for move in legal_moves: v = max(v, min_value(game.forecast_move(move), depth - 1))
mm_max_loop(o, g, d, moves, i, v, c) ==
    IF i > Len(moves) THEN [c |-> c, v |-> v]
    ELSE LET r == mm_min_value(o, forecast_move(g, moves[i]), d - 1,
                               Ev(c, "forecast_move", forecast_move(g, moves[i]), d))
         IN  IF r.c.raised THEN r
             ELSE mm_max_loop(o, g, d, moves, i + 1, Max(v, r.v), r.c)

mm_max_value(o, g, d, c) ==
    LET t == terminal_test(o, g, d, Ev(c, "max_value", g, d))
    IN  IF t.c.raised THEN [c |-> t.c, v |-> 0]
        ELSE IF t.v THEN [c |-> Ev(t.c, "score", g, d), v |-> score[g]]
        ELSE mm_max_loop(o, g, d, get_legal_moves(g), 1, NegInf,
                         Ev(t.c, "get_legal_moves", g, d))

\* The root loop: v = min_value(...); if v > best_score: best_move, best_score = move, v
\* The result carries the local best_move, also when the loop is unwound by
\* SearchTimeout (the caller of a raising call receives no value).
RECURSIVE mm_root_loop(_, _, _, _, _, _, _, _)
mm_root_loop(o, g, d, moves, i, bm, bs, c) ==
    IF i > Len(moves) THEN [c |-> c, v |-> bm]
    ELSE LET r == mm_min_value(o, forecast_move(g, moves[i]), d - 1,
                               Ev(c, "forecast_move", forecast_move(g, moves[i]), d))
         IN  IF r.c.raised THEN [c |-> r.c, v |-> bm]
             ELSE IF better(r.v, bs)
                  THEN mm_root_loop(o, g, d, moves, i + 1, moves[i], r.v, r.c)
                  ELSE mm_root_loop(o, g, d, moves, i + 1, bm, bs, r.c)

\* Faulty variant of minimax: the root is evaluated with max_value before its
\* legal moves are looked at.
minimax_eager(o, g, d, c) ==
    LET c1 == check_timer(o, Ev(c, "minimax", g, d), g, d)
        r  == mm_max_value(o, g, d, c1)
        c2 == Ev(r.c, "get_legal_moves", g, d)
    IN  IF c1.raised THEN [c |-> c1, v |-> Sentinel]
        ELSE IF r.c.raised THEN [c |-> r.c, v |-> Sentinel]
        ELSE IF get_legal_moves(g) = <<>> THEN [c |-> c2, v |-> Sentinel]
        ELSE mm_root_loop(o, g, d, get_legal_moves(g), 1, Sentinel, NegInf,
                          Ev(c2, "get_legal_moves", g, d))

\* MinimaxPlayer.minimax(game, depth)
minimax(o, g, d, c) ==
    LET c1 == check_timer(o, Ev(c, "minimax", g, d), g, d)
        c2 == Ev(c1, "get_legal_moves", g, d)
    IN  IF c1.raised THEN [c |-> c1, v |-> Sentinel]
        ELSE IF get_legal_moves(g) = <<>> THEN [c |-> c2, v |-> Sentinel]
        ELSE mm_root_loop(o, g, d, get_legal_moves(g), 1, Sentinel, NegInf,
                          Ev(c2, "get_legal_moves", g, d))

\* -------------------------------------------------- AlphaBetaPlayer.alphabeta
\* if v <= alpha: return v        (min_value)
min_cutoff(v, alpha) == v <= alpha

\* Faulty variant of the MAX cutoff: the comparison is reversed.
max_cutoff_reversed(v, beta) == v <= beta

\* if v >= beta: return v         (max_value)
max_cutoff(v, beta) == v >= beta

RECURSIVE ab_min_value(_, _, _, _, _, _), ab_min_loop(_, _, _, _, _, _, _, _, _)
RECURSIVE ab_max_value(_, _, _, _, _, _), ab_max_loop(_, _, _, _, _, _, _, _, _)

\* for move in game.get_legal_moves():
\*     v = min(v, max_value(game.forecast_move(move), depth - 1, alpha, beta))
\*     if v <= alpha: return v
\*     beta = min(beta, v)
ab_min_loop(o, g, d, moves, i, v, alpha, beta, c) ==
    IF i > Len(moves) THEN [c |-> c, v |-> v]
    ELSE LET r == ab_max_value(o, forecast_move(g, moves[i]), d - 1, alpha, beta,
                               Ev(c, "forecast_move", forecast_move(g, moves[i]), d))
             v1 == Min(v, r.v)
         IN  IF r.c.raised THEN r
             ELSE IF min_cutoff(v1, alpha) THEN [c |-> r.c, v |-> v1]
             ELSE ab_min_loop(o, g, d, moves, i + 1, v1, alpha, Min(beta, v1), r.c)

ab_min_value(o, g, d, alpha, beta, c) ==
    LET t == terminal_test(o, g, d, Ev(c, "min_value", g, d))
    IN  IF t.c.raised THEN [c |-> t.c, v |-> 0]
        ELSE IF t.v THEN [c |-> Ev(t.c, "score", g, d), v |-> score[g]]
        ELSE ab_min_loop(o, g, d, get_legal_moves(g), 1, PosInf, alpha, beta,
                         Ev(t.c, "get_legal_moves", g, d))

\* for move in game.get_legal_moves():
\*     v = max(v, min_value(game.forecast_move(move), depth - 1, alpha, beta))
\*     if v >= beta: return v
\*     alpha = max(alpha, v)
ab_max_loop(o, g, d, moves, i, v, alpha, beta, c) ==
    IF i > Len(moves) THEN [c |-> c, v |-> v]
    ELSE LET r == ab_min_value(o, forecast_move(g, moves[i]), d - 1, alpha, beta,
                               Ev(c, "forecast_move", forecast_move(g, moves[i]), d))
             v1 == Max(v, r.v)
         IN  IF r.c.raised THEN r
             ELSE IF max_cutoff(v1, beta) THEN [c |-> r.c, v |-> v1]
             ELSE ab_max_loop(o, g, d, moves, i + 1, v1, Max(alpha, v1), beta, r.c)

ab_max_value(o, g, d, alpha, beta, c) ==
    LET t == terminal_test(o, g, d, Ev(c, "max_value", g, d))
    IN  IF t.c.raised THEN [c |-> t.c, v |-> 0]
        ELSE IF t.v THEN [c |-> Ev(t.c, "score", g, d), v |-> score[g]]
        ELSE ab_max_loop(o, g, d, get_legal_moves(g), 1, NegInf, alpha, beta,
                         Ev(t.c, "get_legal_moves", g, d))

\* The root loop:
\*     v = min_value(game.forecast_move(move), depth-1, alpha, beta)
\*     alpha = max(alpha, v)
\*     if v > best_score: best_move, best_score = move, v
RECURSIVE ab_root_loop(_, _, _, _, _, _, _, _, _, _)
ab_root_loop(o, g, d, moves, i, bm, bs, alpha, beta, c) ==
    IF i > Len(moves) THEN [c |-> c, v |-> bm]
    ELSE LET r == ab_min_value(o, forecast_move(g, moves[i]), d - 1, alpha, beta,
                               Ev(c, "forecast_move", forecast_move(g, moves[i]), d))
         IN  IF r.c.raised THEN [c |-> r.c, v |-> bm]
             ELSE IF better(r.v, bs)
                  THEN ab_root_loop(o, g, d, moves, i + 1, moves[i], r.v,
                                    Max(alpha, r.v), beta, r.c)
                  ELSE ab_root_loop(o, g, d, moves, i + 1, bm, bs,
                                    Max(alpha, r.v), beta, r.c)

\* Faulty variant of alphabeta: the root polls the oracle a second time
\* before it enumerates its moves.
alphabeta_second_poll(o, g, d, alpha, beta, c) ==
    LET c0 == check_timer(o, Ev(c, "alphabeta", g, d), g, d)
        c1 == IF c0.raised THEN c0 ELSE check_timer(o, c0, g, d)
        c2 == Ev(c1, "get_legal_moves", g, d)
    IN  IF c1.raised THEN [c |-> c1, v |-> Sentinel]
        ELSE IF get_legal_moves(g) = <<>> THEN [c |-> c2, v |-> Sentinel]
        ELSE ab_root_loop(o, g, d, get_legal_moves(g), 1, Sentinel, NegInf,
                          alpha, beta, Ev(c2, "get_legal_moves", g, d))

\* AlphaBetaPlayer.alphabeta(game, depth, alpha, beta)
alphabeta(o, g, d, alpha, beta, c) ==
    LET c1 == check_timer(o, Ev(c, "alphabeta", g, d), g, d)
        c2 == Ev(c1, "get_legal_moves", g, d)
    IN  IF c1.raised THEN [c |-> c1, v |-> Sentinel]
        ELSE IF get_legal_moves(g) = <<>> THEN [c |-> c2, v |-> Sentinel]
        ELSE ab_root_loop(o, g, d, get_legal_moves(g), 1, Sentinel, NegInf,
                          alpha, beta, Ev(c2, "get_legal_moves", g, d))

\* ------------------------------------------------------------ the agents
Players == {"MinimaxPlayer", "AlphaBetaPlayer"}

\* IsolationPlayer.__init__: the state after construction, for every board,
\* score policy and configuration within the bounds.  (The score of the root
\* is never read: the root is never a leaf of a search.)
Init ==
    /\ \E n \in 1..MaxNodes :
          /\ parent \in Trees(n)
          /\ score \in {s \in [1..n -> Scores] : s[Root] = 0}
    /\ player \in Players
    /\ search_depth \in (IF player = "MinimaxPlayer" THEN 1..MaxPly ELSE {DefaultSearchDepth})
    /\ time_left = None
    /\ call = "none"
    /\ pc = "idle"
    /\ depth = 0
    /\ best_move = Sentinel
    /\ ret = NoValue
    /\ polls = 0
    /\ timed_out = FALSE
    /\ rounds = <<>>
    /\ partial = Sentinel
    /\ log = <<>>
    /\ frame = NoValue

\* Faulty variant of the handler: it names another exception class.
get_move_except_other(exc) == exc = "TimeoutError"

\* except SearchTimeout: the handler of get_move absorbs the abort.
get_move_except(exc) == exc = "SearchTimeout"

\* Faulty variant: the handler sits inside the loop, and the loop goes on
\* after an abort was absorbed.
get_move_outcome_resume == IF get_move_except("SearchTimeout") THEN "running" ELSE "raised"

\* The way a get_move whose search raised SearchTimeout ends.
get_move_outcome == IF get_move_except("SearchTimeout") THEN "returned" ELSE "raised"

\* Faulty variant: the result of the search is dropped and best_move returned.
mm_get_move_result_dropped(r, best) ==
    IF ~r.c.raised THEN best
    ELSE IF get_move_except("SearchTimeout") THEN best ELSE NoValue

\* try: return self.minimax(game, self.search_depth)
\* except SearchTimeout: pass
\* return best_move
mm_get_move_result(r, best) ==
    IF ~r.c.raised THEN r.v
    ELSE IF get_move_except("SearchTimeout") THEN best ELSE NoValue

\* Faulty variant: the best_move of the aborted round is returned.
ab_get_move_result_partial(r, best) ==
    IF get_move_except("SearchTimeout") THEN r.v ELSE NoValue

\* except SearchTimeout: pass
\* return best_move            (AlphaBetaPlayer.get_move, after an aborted round)
ab_get_move_result(r, best) ==
    IF get_move_except("SearchTimeout") THEN best ELSE NoValue

\* A test harness installs an oracle in self.time_left of an agent built with
\* the default configuration and calls MinimaxPlayer.minimax(game, d)
\* directly; SearchTimeout reaches the caller.
MinimaxPlayer_minimax(o, d) ==
    /\ player = "MinimaxPlayer" /\ pc = "idle" /\ search_depth = DefaultSearchDepth
    /\ LET r == minimax(o, Root, d, Ctx0)
       IN  /\ pc' = IF r.c.raised THEN "raised" ELSE "returned"
           /\ ret' = IF r.c.raised THEN NoValue ELSE r.v
           /\ partial' = IF r.c.raised THEN r.v ELSE Sentinel
           /\ timed_out' = r.c.raised
           /\ polls' = r.c.polls
           /\ log' = r.c.log
    /\ call' = "minimax"
    /\ time_left' = o
    /\ depth' = d
    /\ UNCHANGED <<frame, parent, score, player, search_depth, best_move, rounds>>

\* MinimaxPlayer.get_move(game, time_left)
MinimaxPlayer_get_move(o) ==
    /\ player = "MinimaxPlayer" /\ pc = "idle"
    /\ LET r == minimax(o, Root, search_depth, Ctx0)
       IN  /\ pc' = IF r.c.raised THEN get_move_outcome ELSE "returned"
           /\ ret' = mm_get_move_result(r, Sentinel)
           /\ partial' = IF r.c.raised THEN r.v ELSE Sentinel
           /\ timed_out' = r.c.raised
           /\ polls' = r.c.polls
           /\ log' = r.c.log
    /\ call' = "get_move"
    /\ time_left' = o
    /\ depth' = search_depth
    /\ best_move' = Sentinel
    /\ UNCHANGED <<frame, parent, score, player, search_depth, rounds>>

\* A direct call of AlphaBetaPlayer.alphabeta(game, d) with the default bounds.
AlphaBetaPlayer_alphabeta(o, d) ==
    /\ player = "AlphaBetaPlayer" /\ pc = "idle"
    /\ LET r == alphabeta(o, Root, d, NegInf, PosInf, Ctx0)
       IN  /\ pc' = IF r.c.raised THEN "raised" ELSE "returned"
           /\ ret' = IF r.c.raised THEN NoValue ELSE r.v
           /\ partial' = IF r.c.raised THEN r.v ELSE Sentinel
           /\ timed_out' = r.c.raised
           /\ polls' = r.c.polls
           /\ log' = r.c.log
    /\ call' = "alphabeta"
    /\ time_left' = o
    /\ depth' = d
    /\ UNCHANGED <<frame, parent, score, player, search_depth, best_move, rounds>>

\* AlphaBetaPlayer.get_move(game, time_left), up to the loop:
\* self.time_left = time_left; best_move = (-1, -1); depth = 1
AlphaBetaPlayer_get_move(o) ==
    /\ player = "AlphaBetaPlayer" /\ pc = "idle"
    /\ call' = "get_move"
    /\ pc' = "running"
    /\ time_left' = o
    /\ best_move' = Sentinel
    /\ depth' = 1
    /\ UNCHANGED <<frame, parent, score, player, search_depth, ret, polls,
                   timed_out, rounds, partial, log>>

\* Faulty variant: the depth is raised by two after a round.
next_depth_skip(d) == d + 2

\* depth += 1
next_depth(d) == d + 1

\* Faulty variant: the loop is capped at the configured search depth.
while_condition_capped(d) == d <= DefaultSearchDepth

\* while 1: the loop of get_move goes on whatever depth comes next.
while_condition(d) == TRUE

\* One round of the loop of AlphaBetaPlayer.get_move:
\*     best_move = self.alphabeta(game, depth); depth += 1
\* then the loop test (when it fails, return best_move after the loop), and,
\* when the round raises SearchTimeout, the handler and the final return.
AlphaBetaPlayer_get_move_round ==
    /\ player = "AlphaBetaPlayer" /\ call = "get_move" /\ pc = "running"
    /\ time_left.step > 0 \/ depth <= MaxRounds
    /\ LET r == alphabeta(time_left, Root, depth, NegInf, PosInf,
                          [polls |-> polls, log |-> log, raised |-> FALSE])
       IN  /\ polls' = r.c.polls
           /\ log' = r.c.log
           /\ timed_out' = r.c.raised
           /\ IF r.c.raised
              THEN /\ pc' = get_move_outcome
                   /\ ret' = ab_get_move_result(r, best_move)
                   /\ partial' = r.v
                   /\ UNCHANGED <<best_move, depth, rounds>>
              ELSE /\ best_move' = r.v
                   /\ depth' = next_depth(depth)
                   /\ rounds' = Append(rounds, r.v)
                   /\ pc' = IF while_condition(next_depth(depth)) THEN pc ELSE "returned"
                   /\ ret' = IF while_condition(next_depth(depth)) THEN ret ELSE r.v
                   /\ UNCHANGED partial
    /\ UNCHANGED <<frame, parent, score, player, search_depth, time_left, call>>

\* The controllers: a driver calls get_move of the agent once per turn.
Next ==
    \/ \E o \in Oracles : MinimaxPlayer_get_move(o)
    \/ \E o \in Oracles : AlphaBetaPlayer_get_move(o)
    \/ AlphaBetaPlayer_get_move_round

Spec == Init /\ [][Next]_vars

\* The searches alone: a harness calls minimax or alphabeta directly.
NextSearch ==
    \/ \E o \in Oracles, d \in 1..MaxPly : MinimaxPlayer_minimax(o, d)
    \/ \E o \in Oracles, d \in 1..MaxPly : AlphaBetaPlayer_alphabeta(o, d)

SearchSpec == Init /\ [][NextSearch]_vars

\* The iterative deepening alone.  The interpreter keeps running the loop of
\* get_move: a round that can start does start.
InitFair == Init /\ player = "AlphaBetaPlayer"

NextFair ==
    \/ \E o \in Oracles : AlphaBetaPlayer_get_move(o)
    \/ AlphaBetaPlayer_get_move_round

\* A step of the running loop of get_move, told by the two variables every
\* such step changes: it ends the call (pc) or starts the next round (depth).
LoopStep ==
    /\ player = "AlphaBetaPlayer" /\ call = "get_move" /\ pc = "running"
    /\ time_left.step > 0 \/ depth <= MaxRounds
    /\ pc' \in {"running", "returned", "raised"}
    /\ depth' \in {depth, depth + 1}

FairSpec == InitFair /\ [][NextFair]_vars /\ WF_<<pc, depth>>(LoopStep)

\* An agent configured, or a search called, with a depth that violates the
\* precondition depth >= 1: __init__ stores search_depth unchecked, and
\* minimax and alphabeta take depth unchecked.
InvalidDepths == -1..0

InitInvalid ==
    \E n \in 1..MaxNodes :
        /\ parent \in Trees(n)
        /\ score \in {s \in [1..n -> Scores] : s[Root] = 0}
        /\ player \in Players
        /\ search_depth \in (IF player = "MinimaxPlayer"
                              THEN InvalidDepths \cup {DefaultSearchDepth}
                              ELSE {DefaultSearchDepth})
        /\ time_left = None
        /\ call = "none"
        /\ pc = "idle"
        /\ depth = 0
        /\ best_move = Sentinel
        /\ ret = NoValue
        /\ polls = 0
        /\ timed_out = FALSE
        /\ rounds = <<>>
        /\ partial = Sentinel
        /\ log = <<>>
        /\ frame = NoValue

NextInvalid ==
    \/ \E o \in Oracles : search_depth \in InvalidDepths /\ MinimaxPlayer_get_move(o)
    \/ \E o \in Oracles, d \in InvalidDepths : MinimaxPlayer_minimax(o, d)
    \/ \E o \in Oracles, d \in InvalidDepths : AlphaBetaPlayer_alphabeta(o, d)

InvalidSpec == InitInvalid /\ [][NextInvalid]_vars

\* The frames of alphabeta on their own.  min_value and max_value are local
\* functions of alphabeta: a frame for state g exists inside alphabeta(game, D)
\* when g lies at most D plies below the root; it is a min_value frame at an
\* odd ply and a max_value frame at an even one, with depth D minus the ply.
RECURSIVE Ply(_)
Ply(g) == IF g = Root THEN 0 ELSE 1 + Ply(parent[g])

\* The windows a frame can be entered with: alpha and beta start as -inf and
\* +inf and are only ever replaced by values returned by frames, which are
\* scores; alpha < beta on entry.
Windows ==
    {w \in (({NegInf} \cup Scores) \X (Scores \cup {PosInf})) : w[1] < w[2]}

\* min_value(game, depth, alpha, beta) or max_value(game, depth, alpha, beta)
\* for the state g inside alphabeta(game, D), under an oracle that does not abort.
AlphaBetaPlayer_frame(o, g, D, alpha, beta) ==
    /\ player = "AlphaBetaPlayer" /\ pc = "idle"
    /\ g # Root /\ Ply(g) <= D
    /\ LET d == D - Ply(g)
           r == IF Ply(g) % 2 = 1
                THEN ab_min_value(o, g, d, alpha, beta, Ctx0)
                ELSE ab_max_value(o, g, d, alpha, beta, Ctx0)
       IN  /\ call' = IF Ply(g) % 2 = 1 THEN "min_value" ELSE "max_value"
           /\ depth' = d
           /\ frame' = [g |-> g, alpha |-> alpha, beta |-> beta, v |-> r.v]
           /\ pc' = IF r.c.raised THEN "raised" ELSE "returned"
           /\ timed_out' = r.c.raised
           /\ polls' = r.c.polls
           /\ log' = r.c.log
    /\ time_left' = o
    /\ UNCHANGED <<parent, score, player, search_depth, best_move, ret, rounds, partial>>

InitWindow == Init /\ player = "AlphaBetaPlayer"

NextWindow ==
    \E o \in {x \in Oracles : x.step = 0}, g \in 2..MaxNodes, D \in 1..MaxPly, w \in Windows :
        g <= NNodes /\ AlphaBetaPlayer_frame(o, g, D, w[1], w[2])

WindowSpec == InitWindow /\ [][NextWindow]_vars

\* ================================================================ claims
\* Reference definitions of the claims (not code): the depth-limited minimax
\* value of a state, written as the claims state it.
Children(g) == {c \in 1..NNodes : parent[c] = g}

SetMax(S) == CHOOSE x \in S : \A y \in S : y <= x
SetMin(S) == CHOOSE x \in S : \A y \in S : x <= y

RECURSIVE Value(_, _, _)
Value(g, d, maxNode) ==
    IF d <= 0 \/ Children(g) = {} THEN score[g]
    ELSE IF maxNode THEN SetMax({Value(c, d - 1, FALSE) : c \in Children(g)})
    ELSE SetMin({Value(c, d - 1, TRUE) : c \in Children(g)})

\* The value of the root move leading to c in a search of depth d: c is a MIN node.
RootValue(c, d) == Value(c, d - 1, FALSE)
BestRootValue(d) == SetMax({RootValue(c, d) : c \in Children(Root)})

\* The first move, in the enumeration order of get_legal_moves, with the best value.
FirstBestMove(d) ==
    LET moves == get_legal_moves(Root)
        i == CHOOSE i \in 1..Len(moves) :
                 /\ RootValue(moves[i][2], d) = BestRootValue(d)
                 /\ \A j \in 1..(i - 1) : RootValue(moves[j][2], d) # BestRootValue(d)
    IN  moves[i]

\* An oracle that never reports less than the threshold.
NeverOracle == [start |-> TIMER_THRESHOLD, step |-> 0]

LogNames == {log[i][1] : i \in 1..Len(log)}
LogCount(name) == Cardinality({i \in 1..Len(log) : log[i][1] = name})
Finished == pc \in {"returned", "raised"}
DirectCall == call \in {"minimax", "alphabeta"}
RootLegalMoves == {MoveTo(c) : c \in Children(Root)}

\* C1: a completed alphabeta(state, depth) call with the default bounds returns
\* the move that minimax(state, depth) returns under an oracle that never
\* reports less than the threshold, and a completed minimax call returns the
\* move alphabeta returns: the two searches select the same move.
C1_AlphaBetaSameMoveAsMinimax ==
    /\ (call = "alphabeta" /\ pc = "returned")
          => ret = minimax(NeverOracle, Root, depth, Ctx0).v
    /\ (call = "minimax" /\ pc = "returned")
          => ret = alphabeta(NeverOracle, Root, depth, NegInf, PosInf, Ctx0).v

\* C1 witness: alphabeta completed at depth 3 on a board on which it pruned
\* (it visited fewer states than minimax does) and returned a move.
C1_Witness ==
    /\ call = "alphabeta" /\ pc = "returned" /\ depth = 3
    /\ time_left = NeverOracle
    /\ ret # Sentinel
    /\ polls < minimax(NeverOracle, Root, depth, Ctx0).c.polls

\* C2 (as claimed): when AlphaBetaPlayer.get_move returns after the abort of the
\* round at depth d, it returns the result of the completed round d-1 if d >= 2,
\* and it returns the sentinel only if d = 1.
C2_ReturnsLastCompletedRoundSentinelOnlyAtDepth1 ==
    (player = "AlphaBetaPlayer" /\ call = "get_move" /\ pc = "returned") =>
        /\ depth >= 2 => (Len(rounds) = depth - 1 /\ ret = rounds[depth - 1])
        /\ depth = 1 => ret = <<-1, -1>>
        /\ ret = <<-1, -1>> => depth = 1

\* C3: a get_move of either controller that has finished has finished by
\* returning a move value, never by raising SearchTimeout to its caller.
C3_GetMoveNeverRaises ==
    (call = "get_move" /\ Finished) => (pc = "returned" /\ ret # NoValue)

\* C3 witness: SearchTimeout was raised deep inside the search of a get_move
\* (after the entry poll) and get_move returned.
C3_Witness ==
    /\ call = "get_move" /\ pc = "returned" /\ timed_out /\ polls >= 3
    /\ player = "MinimaxPlayer"

\* C4: MinimaxPlayer.get_move calls minimax exactly once, at search_depth; if
\* the search completes get_move returns the move minimax returns, and if the
\* search aborts on timeout get_move returns the sentinel (-1, -1).
C4_MinimaxGetMoveWrapsOneSearch ==
    (player = "MinimaxPlayer" /\ call = "get_move" /\ Finished) =>
        /\ LogCount("minimax") = 1
        /\ log[1] = <<"minimax", Root, search_depth>>
        /\ ~timed_out =>
              (pc = "returned" /\ ret = minimax(NeverOracle, Root, search_depth, Ctx0).v)
        /\ timed_out => (pc = "returned" /\ ret = <<-1, -1>>)

\* C4 witness: a get_move whose search completed and returned a legal move.
C4_Witness ==
    /\ player = "MinimaxPlayer" /\ call = "get_move" /\ pc = "returned"
    /\ ~timed_out /\ ret \in RootLegalMoves /\ search_depth = 2

C6_ReturnsMoveOfSomeCompletedDepth ==
    (player = "AlphaBetaPlayer" /\ call = "get_move" /\ pc = "returned"
        /\ time_left.step > 0) =>
        \E k \in 1..Len(rounds) : k <= depth /\ ret = rounds[k]

\* C6 (amended): under an oracle that strictly decreases with each poll,
\* AlphaBetaPlayer.get_move terminates, and it returns the move of the last
\* completed round, whose depth is below the depth at which the threshold was
\* crossed, or the sentinel when no round completed.
C6_TerminatesWithLastCompletedRound ==
    (player = "AlphaBetaPlayer" /\ call = "get_move" /\ pc = "running"
        /\ time_left.step > 0)
    ~> (/\ pc = "returned"
        /\ Len(rounds) = depth - 1
        /\ ret = IF rounds = <<>> THEN <<-1, -1>> ELSE rounds[Len(rounds)])

\* C6 witness: under a strictly decreasing oracle get_move returned a legal
\* move after the threshold was crossed inside the round at depth 3.
C6_Witness ==
    /\ player = "AlphaBetaPlayer" /\ call = "get_move" /\ pc = "returned"
    /\ time_left.step > 0 /\ depth = 3 /\ ret \in RootLegalMoves
    /\ log[Len(log) - 1][1] # "alphabeta"

\* C7: a minimax or alphabeta call on a state without legal moves makes no
\* forecast_move, score or min_value/max_value call, and what it returns is
\* the sentinel (-1, -1); the only other way it ends is SearchTimeout at its
\* entry poll.
C7_NoLegalMovesSentinelWithoutRecursing ==
    (DirectCall /\ Finished /\ Children(Root) = {}) =>
        /\ LogNames \cap {"forecast_move", "score", "min_value", "max_value"} = {}
        /\ IF timed_out THEN polls = 1 ELSE (pc = "returned" /\ ret = <<-1, -1>>)

\* C7 witness: alphabeta returned on a state without legal moves.
C7_Witness ==
    /\ call = "alphabeta" /\ pc = "returned" /\ Children(Root) = {} /\ ret = <<-1, -1>>

\* C8: a completed minimax or alphabeta call on a state with legal moves
\* returns the first move, in the enumeration order of get_legal_moves, among
\* the root moves with the best value.
C8_RootTieBreakFirstEnumerated ==
    (DirectCall /\ pc = "returned" /\ Children(Root) # {}) => ret = FirstBestMove(depth)

\* C8 witness: alphabeta returned on a board where two root moves tie for the
\* best value at depth 2.
C8_Witness ==
    /\ call = "alphabeta" /\ pc = "returned" /\ depth = 2
    /\ \E c1, c2 \in Children(Root) :
          /\ c1 # c2
          /\ RootValue(c1, depth) = BestRootValue(depth)
          /\ RootValue(c2, depth) = BestRootValue(depth)
          /\ Children(c1) # {}

\* C9 (as claimed): when the root state has no legal moves,
\* AlphaBetaPlayer.get_move starts no round at depth 2 or deeper.
C9_NoLegalMovesStopsAfterDepth1 ==
    (player = "AlphaBetaPlayer" /\ call = "get_move" /\ Children(Root) = {}) =>
        \A i \in 1..Len(log) : log[i][1] = "alphabeta" => log[i][3] <= 1

\* C10: the value a get_move of either controller returns is a legal move of
\* the root state or the sentinel (-1, -1).
C10_ReturnsLegalMoveOrSentinel ==
    (call = "get_move" /\ Finished) => (ret \in RootLegalMoves \/ ret = <<-1, -1>>)

\* C10 witness: the iterative deepening returned a legal move after its
\* round at depth 3 was aborted inside the search.
C10_Witness ==
    /\ player = "AlphaBetaPlayer" /\ call = "get_move" /\ pc = "returned"
    /\ depth = 3 /\ ret \in RootLegalMoves /\ log[Len(log) - 1][1] # "alphabeta"

\* What get_move surfaces to its caller: the way it ends and the value.
Surfaced == <<pc, ret>>

\* C11 (as claimed): what get_move surfaces for a root without legal moves,
\* a returned sentinel (-1, -1), differs from what it surfaces when its search
\* was aborted on a root that has legal moves.
C11_NoLegalMovesDistinguishableFromAbort ==
    /\ (call = "get_move" /\ Finished /\ Children(Root) = {})
          => Surfaced = <<"returned", <<-1, -1>>>>
    /\ (call = "get_move" /\ Finished /\ Children(Root) # {} /\ timed_out)
          => Surfaced # <<"returned", <<-1, -1>>>>

\* C12 (as claimed): a get_move of an agent configured with search_depth <= 0,
\* and a minimax or alphabeta call with depth <= 0, fails before any search
\* work: it polls no oracle, enumerates no legal moves, makes no forecast,
\* evaluates no score, and returns no move.
C12_NonPositiveDepthFailsFast ==
    (call # "none" /\ depth <= 0) =>
        /\ LogNames \cap {"time_left", "get_legal_moves", "forecast_move", "score"} = {}
        /\ polls = 0
        /\ ret \notin RootLegalMoves

\* The node (state) at which the i-th logged call is made: forecast_move is
\* logged with the state it produces and is made at that state's parent.
NodeOf(i) == IF log[i][1] = "forecast_move" THEN parent[log[i][2]] ELSE log[i][2]

\* The value the oracle reported at the poll logged at position i.
PollValue(i) ==
    oracle_value(time_left, Cardinality({j \in 1..(i - 1) : log[j][1] = "time_left"}))

PollsBelowThreshold ==
    {i \in 1..Len(log) : log[i][1] = "time_left" /\ PollValue(i) < TIMER_THRESHOLD}

\* C13: in a minimax or alphabeta call every visited node (root, MIN node,
\* MAX node, leaf) polls the oracle first: its poll directly follows its
\* entry, and every get_legal_moves, forecast_move and score call made for a
\* node comes after that node's poll.  A poll below the threshold is the last
\* thing the search does: no call and no poll follows it, and the search has
\* raised SearchTimeout.
C13_PollBeforeWorkAbortImmediately ==
    DirectCall =>
        /\ \A i \in 1..Len(log) :
              log[i][1] \in {"minimax", "alphabeta", "min_value", "max_value"} =>
                  /\ i < Len(log)
                  /\ log[i + 1] = <<"time_left", log[i][2], log[i][3]>>
        /\ \A i \in 1..Len(log) :
              log[i][1] \in {"get_legal_moves", "forecast_move", "score"} =>
                  \E j \in 1..(i - 1) : log[j] = <<"time_left", NodeOf(i), log[i][3]>>
        /\ \A i \in PollsBelowThreshold : i = Len(log)
        /\ timed_out <=> PollsBelowThreshold # {}
        /\ timed_out => pc = "raised"

\* C13 witness: an alphabeta call at depth 3 that scored a leaf at the depth
\* limit and was aborted by a later poll, deep inside the search.
C13_Witness ==
    /\ call = "alphabeta" /\ depth = 3 /\ timed_out /\ polls >= 5
    /\ \E i \in 1..Len(log) : log[i][1] = "score" /\ log[i][3] = 0
    /\ log[Len(log)][1] = "time_left" /\ log[Len(log)][3] < depth

\* C14: in a get_move at most one poll reports less than the threshold; that
\* poll makes the enclosing minimax or alphabeta call raise SearchTimeout (no
\* frame of the search absorbs it, and the call hands no move to get_move:
\* the aborted round is not among the completed ones and get_move returns the
\* best_move it held before that call); it is the last thing logged, so
\* after absorbing the abort get_move starts no round and does no search
\* work, and get_move has returned.
C14_AbortRaisedBySearchAbsorbedOnce ==
    call = "get_move" =>
        /\ Cardinality(PollsBelowThreshold) <= 1
        /\ timed_out <=> PollsBelowThreshold # {}
        /\ timed_out =>
              /\ pc = "returned"
              /\ PollsBelowThreshold = {Len(log)}
              /\ ret = best_move
              /\ player = "MinimaxPlayer" => ret = <<-1, -1>>
              /\ player = "AlphaBetaPlayer" =>
                    /\ Len(rounds) = LogCount("alphabeta") - 1
                    /\ best_move = IF rounds = <<>> THEN <<-1, -1>>
                                   ELSE rounds[Len(rounds)]

\* C14 witness: the round at depth 3 of a get_move was aborted deep inside
\* the search after it had found a root move other than the one of round 2;
\* get_move returned the move of round 2.
C14_Witness ==
    /\ player = "AlphaBetaPlayer" /\ call = "get_move" /\ pc = "returned"
    /\ timed_out /\ depth = 3 /\ Len(rounds) = 2
    /\ partial # <<-1, -1>> /\ partial # ret /\ ret = rounds[2]
    /\ log[Len(log)][3] < depth

\* The calls a round at depth k makes when it runs to completion.
FullRoundLog(k) == alphabeta(NeverOracle, Root, k, NegInf, PosInf, Ctx0).c.log

RECURSIVE CompletedRoundsLog(_)
CompletedRoundsLog(k) ==
    IF k = 0 THEN <<>> ELSE CompletedRoundsLog(k - 1) \o FullRoundLog(k)

IsPrefix(a, b) == Len(a) <= Len(b) /\ SubSeq(b, 1, Len(a)) = a

\* The alphabeta calls of the rounds, in the order they were started.
RoundStarts == SelectSeq(log, LAMBDA e : e[1] = "alphabeta")

\* C15: in AlphaBetaPlayer.get_move the k-th round started is the round at
\* depth k (1, 2, 3, ... with none skipped or repeated); every round before
\* the last one started ran to completion before the next began (the log is
\* the complete logs of rounds 1..n in order, followed only by the part of
\* round n+1 an abort left); and best_move is the result of the last
\* completed round, the sentinel while none has completed: an aborted round
\* leaves it alone.
C15_RoundsInDepthOrderBestMoveAtCompletion ==
    (player = "AlphaBetaPlayer" /\ call = "get_move") =>
        LET n == Len(rounds)
            done == CompletedRoundsLog(n)
        IN  /\ \A k \in 1..Len(RoundStarts) : RoundStarts[k] = <<"alphabeta", Root, k>>
            /\ Len(RoundStarts) = n + (IF timed_out THEN 1 ELSE 0)
            /\ IsPrefix(done, log)
            /\ ~timed_out => log = done
            /\ timed_out =>
                  /\ Len(log) > Len(done)
                  /\ Len(log) - Len(done) < Len(FullRoundLog(n + 1))
                  /\ IsPrefix(SubSeq(log, Len(done) + 1, Len(log)), FullRoundLog(n + 1))
            /\ \A k \in 1..n :
                  rounds[k] = alphabeta(NeverOracle, Root, k, NegInf, PosInf, Ctx0).v
            /\ best_move = IF n = 0 THEN <<-1, -1>> ELSE rounds[n]
            /\ pc = "running" => depth = n + 1
            /\ timed_out => depth = n + 1

\* C15 witness: two rounds completed, the second with another move than the
\* first, and the round at depth 3 was aborted inside the search.
C15_Witness ==
    /\ player = "AlphaBetaPlayer" /\ call = "get_move" /\ timed_out
    /\ Len(rounds) = 2 /\ rounds[1] # rounds[2] /\ best_move = rounds[2]
    /\ depth = 3 /\ log[Len(log)][3] < depth

\* C16: a min_value or max_value frame of alphabeta entered with a window
\* (alpha, beta), alpha < beta, on a state whose depth-limited minimax value
\* is t returns exactly t when alpha < t < beta, a value r with
\* t <= r <= alpha when t <= alpha, and a value r with beta <= r <= t when
\* t >= beta.
C16_WindowBoundSoundness ==
    (call \in {"min_value", "max_value"} /\ pc = "returned") =>
        LET t == Value(frame.g, depth, call = "max_value")
            r == frame.v
        IN  /\ frame.alpha < frame.beta
            /\ (frame.alpha < t /\ t < frame.beta) => r = t
            /\ t <= frame.alpha => (t <= r /\ r <= frame.alpha)
            /\ t >= frame.beta => (frame.beta <= r /\ r <= t)

\* C16 witness: a min_value frame at depth 2 cut off and returned a value that
\* is at most alpha and strictly above the true value of its state.
C16_Witness ==
    /\ call = "min_value" /\ pc = "returned" /\ depth = 2
    /\ Children(frame.g) # {}
    /\ frame.v <= frame.alpha
    /\ Value(frame.g, depth, FALSE) < frame.v

\* C17: AlphaBetaPlayer.get_move leaves its loop only by a timeout abort: a
\* get_move that has returned was aborted.  Under an oracle that never reports
\* less than the threshold, on a root with a legal move, get_move never
\* returns and never aborts, every round it starts completes, and the depth
\* keeps growing: it reaches every depth the model admits (MaxRounds + 1),
\* however small the game tree is.
C17_NoDepthCapOnlyTimeoutLeavesLoop ==
    /\ []((player = "AlphaBetaPlayer" /\ call = "get_move") =>
            /\ pc = "returned" => timed_out
            /\ (time_left = NeverOracle /\ Children(Root) # {}) =>
                  (pc = "running" /\ ~timed_out /\ Len(rounds) = depth - 1))
    /\ \A k \in 1..(MaxRounds + 1) :
          (player = "AlphaBetaPlayer" /\ call = "get_move"
              /\ time_left = NeverOracle /\ Children(Root) # {})
          ~> (pc = "running" /\ depth >= k)

\* C17 witness: under an oracle that never reports less than the threshold
\* the loop is about to start the round at depth MaxRounds + 1 on a tree whose
\* states all lie within two plies of the root: the rounds from depth 2 on
\* explored the whole tree.
C17_Witness ==
    /\ player = "AlphaBetaPlayer" /\ call = "get_move" /\ pc = "running"
    /\ time_left = NeverOracle /\ depth = MaxRounds + 1
    /\ Children(Root) # {} /\ \A g \in 1..NNodes : Ply(g) <= 2
    /\ \E g \in 1..NNodes : Ply(g) = 2
    /\ LogCount("alphabeta") = MaxRounds

\* C18: with the finite score policy, a minimax call (inside
\* MinimaxPlayer.get_move) and an alphabeta call with the default bounds (a
\* round of AlphaBetaPlayer.get_move) that completes on a root with a legal
\* move returns one of the root's legal moves, never the sentinel (-1, -1);
\* and an AlphaBetaPlayer.get_move that returned the sentinel had a root
\* without legal moves or no completed round.
C18_CompletedSearchReturnsLegalMove ==
    /\ (player = "MinimaxPlayer" /\ call = "get_move" /\ pc = "returned"
           /\ ~timed_out /\ Children(Root) # {})
          => (ret \in RootLegalMoves /\ ret # <<-1, -1>>)
    /\ (player = "AlphaBetaPlayer" /\ call = "get_move" /\ Children(Root) # {})
          => \A k \in 1..Len(rounds) :
                 rounds[k] \in RootLegalMoves /\ rounds[k] # <<-1, -1>>
    /\ (player = "AlphaBetaPlayer" /\ call = "get_move" /\ pc = "returned"
           /\ ret = <<-1, -1>>)
          => (Children(Root) = {} \/ rounds = <<>>)

\* C18 witness: two rounds of get_move completed on a root all of whose moves
\* have the lowest score as value, and get_move returned a legal move.
C18_Witness ==
    /\ player = "AlphaBetaPlayer" /\ call = "get_move" /\ pc = "returned"
    /\ Len(rounds) = 2 /\ Cardinality(Children(Root)) >= 2
    /\ \A c \in Children(Root) : RootValue(c, 1) = 0 /\ RootValue(c, 2) = 0
    /\ ret \in RootLegalMoves

\* The states a search visited, by its log: the root and every state a
\* min_value or max_value frame was entered for.
VisitedNodes(lg) ==
    {lg[i][2] : i \in {j \in 1..Len(lg) :
                          lg[j][1] \in {"minimax", "alphabeta", "min_value", "max_value"}}}

\* The number of polls a search made at the state g.
PollsAt(lg, g) == Cardinality({i \in 1..Len(lg) : lg[i][1] = "time_left" /\ lg[i][2] = g})

\* C19: for the same state, depth and score policy, every state an alphabeta
\* call with the default bounds visits is visited by the complete minimax
\* search, and every state either search visits polls the oracle exactly
\* once; alphabeta makes no more polls than minimax makes under the same
\* oracle, and under an oracle under which minimax completes, alphabeta
\* completes as well.
C19_AlphaBetaVisitsSubsetOfMinimax ==
    /\ DirectCall =>
          /\ \A g \in VisitedNodes(log) : PollsAt(log, g) = 1
          /\ polls = Cardinality(VisitedNodes(log))
    /\ call = "alphabeta" =>
          /\ VisitedNodes(log) \subseteq
                 VisitedNodes(minimax(NeverOracle, Root, depth, Ctx0).c.log)
          /\ polls <= minimax(time_left, Root, depth, Ctx0).c.polls
    /\ (call = "minimax" /\ pc = "returned") =>
          LET r == alphabeta(time_left, Root, depth, NegInf, PosInf, Ctx0)
          IN  ~r.c.raised /\ r.c.polls <= polls

\* C19 witness: under an oracle that allows fewer polls than the complete
\* minimax search of depth 3 needs, alphabeta completed at depth 3: it pruned.
C19_Witness ==
    /\ call = "alphabeta" /\ pc = "returned" /\ depth = 3 /\ time_left.step > 0
    /\ minimax(time_left, Root, depth, Ctx0).c.raised
    /\ VisitedNodes(log) # VisitedNodes(minimax(NeverOracle, Root, depth, Ctx0).c.log)

====
